---- MODULE Spec2Model ----
(***************************************************************************)
(* The render pass of app.py (a Streamlit script): the literal tables, the *)
(* value-dependent encodings computed from them (colour sequences, text    *)
(* labels, ratio interpretation) and the page elements emitted in source   *)
(* order.                                                                   *)
(*                                                                         *)
(* Representation.  Percentages and ratios are Python floats written with  *)
(* at most two decimals; they are held as integers in hundredths (34.8 is  *)
(* 3480, 0.94 is 94).  A cell that may hold NaN is a record                *)
(* [nan |-> BOOLEAN, v |-> Int].  Strings that are computed (labels) are   *)
(* sequences of one-character strings; table labels and colour codes that  *)
(* are only compared stay TLA+ strings.  Row index i of the source is      *)
(* position i + 1 of a column.                                             *)
(***************************************************************************)
EXTENDS Integers, Sequences, FiniteSets, TLC

VARIABLES decl, run, pc, tables, colors, fig, page, row, error

vars == <<decl, run, pc, tables, colors, fig, page, row, error>>

\* ------------------------------------------------------------------ bounds
\* number of times the script is executed top to bottom
MaxRuns == 3
\* an edited Growth_Pct cell ranges over -MaxPct .. MaxPct
MaxPct == 12
\* an edited Sophistication Ratio cell ranges over 1.00 +/- RatioSpread/100
RatioSpread == 3

\* --------------------------------------------------------------- constants
TOTAL_OBSERVATIONS == 141
TOTAL_LETTERS == 111
TOTAL_COMPANIES == 109

\* ------------------------------------------------------------------- cells
Num(n) == [nan |-> FALSE, v |-> n]
NaN == [nan |-> TRUE, v |-> 0]

\* ------------------------------------------------------------------ tables
\* the yearly table with a partial year 2025 that overtakes 2024
yearly_data_LaterPeak ==
  [Year |-> <<"2020", "2021", "2022", "2023", "2024", "2025">>,
   Observations |-> <<8, 7, 17, 8, 23, 25>>,
   Period |-> <<"Pre-surge", "Pre-surge", "Pre-surge", "Pre-surge", "Surge", "Surge">>]

yearly_data ==
  [Year |-> <<"2020", "2021", "2022", "2023", "2024", "2025">>,
   Observations |-> <<8, 7, 17, 8, 23, 22>>,
   Period |-> <<"Pre-surge", "Pre-surge", "Pre-surge", "Pre-surge", "Surge", "Surge">>]

\* the violation table with Software Validation's percentage mistyped (13.4)
violation_data_Typo ==
  [ViolationType |-> <<"Audit Trail Failures",
                       "Automatic Equipment Controls (211.68)",
                       "Chromatography Data Systems",
                       "Electronic Records",
                       "Password & Login Issues",
                       "Computerized Systems General",
                       "Access Control Failures",
                       "Software Validation",
                       "Data Backup Deficiencies">>,
   Count |-> <<49, 40, 24, 24, 24, 22, 21, 19, 8>>,
   Percentage |-> <<3480, 2840, 1700, 1700, 1700, 1560, 1490, 1340, 570>>]

violation_data ==
  [ViolationType |-> <<"Audit Trail Failures",
                       "Automatic Equipment Controls (211.68)",
                       "Chromatography Data Systems",
                       "Electronic Records",
                       "Password & Login Issues",
                       "Computerized Systems General",
                       "Access Control Failures",
                       "Software Validation",
                       "Data Backup Deficiencies">>,
   Count |-> <<49, 40, 24, 24, 24, 22, 21, 19, 8>>,
   Percentage |-> <<3480, 2840, 1700, 1700, 1700, 1560, 1490, 1350, 570>>]

geo_data ==
  [Region |-> <<"United States", "India", "China", "Germany", "South Korea", "Other Regions">>,
   Observations |-> <<71, 28, 14, 6, 3, 19>>,
   Percentage |-> <<5040, 1990, 990, 430, 210, 1340>>]

\* the sophistication table with the ratio taken as Basic / Complex
sophistication_data_Inverted ==
  [Region |-> <<"United States", "India", "China">>,
   BasicFailures |-> <<3640, 2110, 3330>>,
   ComplexFailures |-> <<3430, 2280, 2220>>,
   SophisticationRatio |-> <<[nan |-> FALSE, v |-> 106], [nan |-> FALSE, v |-> 93],
                             [nan |-> FALSE, v |-> 150]>>]

sophistication_data ==
  [Region |-> <<"United States", "India", "China">>,
   BasicFailures |-> <<3640, 2110, 3330>>,
   ComplexFailures |-> <<3430, 2280, 2220>>,
   SophisticationRatio |-> <<Num(94), Num(108), Num(67)>>]

facility_data ==
  [FacilityType |-> <<"QC Laboratory", "API Manufacturing", "Sterile Manufacturing", "Finished Dosage", "Other">>,
   AuditTrailViolations |-> <<17, 11, 3, 6, 12>>,
   OtherCSVViolations |-> <<12, 15, 11, 9, 45>>]

\* the growth table with the fall of Password Security written unsigned
growth_data_Unsigned ==
  [ViolationType |-> <<"Audit Trail", "Password Security", "Electronic Records", "Equipment Controls">>,
   Y2022 |-> <<9, 7, 4, 7>>,
   Y2024 |-> <<12, 3, 4, 7>>,
   Growth_Pct |-> <<[nan |-> FALSE, v |-> 33], [nan |-> FALSE, v |-> 57],
                    [nan |-> FALSE, v |-> 0], [nan |-> FALSE, v |-> 0]>>]

growth_data ==
  [ViolationType |-> <<"Audit Trail", "Password Security", "Electronic Records", "Equipment Controls">>,
   Y2022 |-> <<9, 7, 4, 7>>,
   Y2024 |-> <<12, 3, 4, 7>>,
   Growth_Pct |-> <<Num(33), Num(-57), Num(0), Num(0)>>]

cooccurrence_data ==
  [ViolationPair |-> <<"Audit Trail + Password Issues",
                       "Audit Trail + Equipment Controls",
                       "Audit Trail + Chromatography Systems",
                       "Audit Trail + Access Control",
                       "Audit Trail + Electronic Records">>,
   Co_occurrences |-> <<20, 20, 16, 16, 14>>]

keyword_data ==
  [Finding |-> <<"Delete capability", "Administrator access", "Shared credentials",
                 "Not enabled", "Spreadsheet use", "Backup issues", "Manual workarounds">>,
   Pct_of_Observations |-> <<1560, 990, 710, 640, 780, 570, 430>>]

system_data ==
  [SystemCategory |-> <<"Chromatography Data Systems", "Laboratory Information Systems",
                        "Spreadsheet Applications", "Analytical Instrument Software">>,
   Observations |-> <<24, 10, 11, 8>>]

\* the DATA section of the script as written
DataSection ==
  [yearly_data |-> yearly_data,
   violation_data |-> violation_data,
   geo_data |-> geo_data,
   sophistication_data |-> sophistication_data,
   facility_data |-> facility_data,
   growth_data |-> growth_data,
   cooccurrence_data |-> cooccurrence_data,
   keyword_data |-> keyword_data,
   system_data |-> system_data]

\* the module namespace before the DATA section has run: no table is bound
Unbound == [n \in DOMAIN DataSection |-> <<>>]

\* len(df): the number of rows
RowCount(df) == Len(df[CHOOSE c \in DOMAIN df : TRUE])

\* ------------------------------------------------------- string formatting
Digit(d) == <<"0", "1", "2", "3", "4", "5", "6", "7", "8", "9">>[d + 1]

RECURSIVE Digits(_)
\* the decimal digits of a natural number
Digits(n) == IF n < 10 THEN <<Digit(n)>> ELSE Digits(n \div 10) \o <<Digit(n % 10)>>

Abs(n) == IF n < 0 THEN -n ELSE n

\* f"{c}" of an int
FormatInt(n) == (IF n < 0 THEN <<"-">> ELSE <<>>) \o Digits(Abs(n))

\* f"{g:d}": the sign is written for negatives only
FormatPlusD_NoPlus(g) == (IF g < 0 THEN <<"-">> ELSE <<>>) \o Digits(Abs(g))

\* f"{g:+d}" of an int: the sign is always written
FormatPlusD(g) == (IF g < 0 THEN <<"-">> ELSE <<"+">>) \o Digits(Abs(g))

\* f"{p:g}": a whole number loses its fractional digit
FormatFloat_G(h) ==
  Digits(h \div 100) \o
  (IF h % 100 = 0 THEN <<>>
   ELSE IF h % 10 = 0 THEN <<".", Digit((h % 100) \div 10)>>
   ELSE <<".", Digit((h % 100) \div 10), Digit(h % 10)>>)

\* f"{p}" of a non-negative float held in hundredths: the shortest decimal
\* that reads back as the same float, with at least one fractional digit
FormatFloat(h) ==
  Digits(h \div 100) \o <<".">> \o
  (IF h % 10 = 0 THEN <<Digit((h % 100) \div 10)>>
                 ELSE <<Digit((h % 100) \div 10), Digit(h % 10)>>)

\* f"{ratio:.2f}" of a float cell: always two fractional digits, nan for NaN
Format2f(c) ==
  IF c.nan THEN <<"n", "a", "n">>
  ELSE (IF c.v < 0 THEN <<"-">> ELSE <<>>) \o Digits(Abs(c.v) \div 100) \o <<".">> \o
       <<Digit((Abs(c.v) % 100) \div 10), Digit(Abs(c.v) % 10)>>

\* a Python  x > n  on a float cell: every comparison with NaN is False
Gt(c, n) == ~c.nan /\ c.v > n

\* the dtype pandas gives a numeric column built from a list: a NaN makes
\* the whole column float64, a list of ints stays int64
IsFloatColumn(col) == \E k \in 1..Len(col) : col[k].nan

\* ---------------------------------------------------------------- encoders
\* the emphasis test written  i == 1
ViolationColors_Second(df) ==
  [k \in 1..Len(df.Count) |-> IF k - 1 = 1 THEN "#dc2626" ELSE "#475569"]

\* colors of the violation chart
ViolationColors(df) ==
  [k \in 1..RowCount(df) |-> IF k - 1 = 0 THEN "#dc2626" ELSE "#475569"]

\* text of the violation chart: f"<b>{c}</b> ({p}%)"
ViolationText(df) ==
  [k \in 1..Len(df.Count) |->
     <<"<", "b", ">">> \o FormatInt(df.Count[k]) \o <<"<", "/", "b", ">", " ", "(">> \o
     FormatFloat(df.Percentage[k]) \o <<"%", ")">>]

\* text of the two sophistication bars: f"{v}%"
SophText(col) == [k \in 1..Len(col) |-> FormatFloat(col[k]) \o <<"%">>]

\* the emphasis list without 'Administrator access'
KeywordColors_TwoLabels(df) ==
  [k \in 1..Len(df.Finding) |->
     IF df.Finding[k] \in {"Delete capability", "Spreadsheet use"}
     THEN "#dc2626" ELSE "#64748b"]

\* colors of the keyword chart
KeywordColors(df) ==
  [k \in 1..Len(df.Finding) |->
     IF df.Finding[k] \in {"Delete capability", "Spreadsheet use", "Administrator access"}
     THEN "#dc2626" ELSE "#64748b"]

\* text of the keyword chart: f"<b>{p}%</b>"
KeywordText(df) ==
  [k \in 1..Len(df.Pct_of_Observations) |->
     <<"<", "b", ">">> \o FormatFloat(df.Pct_of_Observations[k]) \o <<"%", "<", "/", "b", ">">>]

\* the conditional expression of the growth chart's colors, for one value g
SignedColor(g) == IF Gt(g, 0) THEN "#dc2626" ELSE "#059669"

\* colors of the growth chart
GrowthColors(df) == [k \in 1..Len(df.Growth_Pct) |-> SignedColor(df.Growth_Pct[k])]

\* text of the growth chart: f"<b>{g:+d}%</b>"; format code d is defined
\* for ints only
GrowthTextRaises(df) == Len(df.Growth_Pct) > 0 /\ IsFloatColumn(df.Growth_Pct)

GrowthText(df) ==
  [k \in 1..Len(df.Growth_Pct) |->
     <<"<", "b", ">">> \o FormatPlusD(df.Growth_Pct[k].v) \o <<"%", "<", "/", "b", ">">>]

\* the branch written  ratio >= 1
RatioColor_Ge(ratio) == IF ~ratio.nan /\ ratio.v >= 100 THEN "#059669" ELSE "#dc2626"

\* the branch of the ratio loop body
RatioColor(ratio) == IF Gt(ratio, 100) THEN "#059669" ELSE "#dc2626"

RatioInterpretation(ratio) ==
  IF Gt(ratio, 100) THEN "More complex than basic" ELSE "More basic than complex"

\* ------------------------------------------------------------ render pass
\* the statements of the script in source order
Order ==
  <<"page_config", "css", "data", "sidebar", "header", "hook", "spike",
    "fig_yearly", "plot_yearly", "spike_insight", "paradox",
    "violation_colors", "violation_trace", "plot_violations", "found",
    "soph_intro", "soph_traces", "plot_soph", "ratio_heading", "ratio_loop",
    "soph_insight", "delete_intro",
    "keyword_colors", "keyword_trace", "plot_keywords", "keyword_columns",
    "improving", "growth_colors", "growth_trace", "plot_growth",
    "growth_insight", "action_items", "footer", "done">>

\* the statement after statement p
Succ(p) == Order[(CHOOSE k \in 1..Len(Order) : Order[k] = p) + 1]

\* the statements that only emit static text (st.markdown, st.metric,
\* st.caption and the column containers around them)
TextSteps ==
  {"css", "sidebar", "header", "hook", "spike", "spike_insight", "paradox",
   "found", "soph_intro", "ratio_heading", "soph_insight", "delete_intro",
   "keyword_columns", "improving", "growth_insight", "action_items", "footer"}

\* a page element handed to Streamlit
Element(kind, what, data) == [kind |-> kind, what |-> what, data |-> data]

\* a go.Figure() with nothing added
EmptyFigure == [traces |-> <<>>, annotations |-> <<>>]

NoFigures ==
  [fig_yearly |-> EmptyFigure, fig_violations |-> EmptyFigure, fig_soph |-> EmptyFigure,
   fig_keywords |-> EmptyFigure, fig_growth |-> EmptyFigure]

\* a go.Bar / go.Scatter trace
Trace(x, y, marker_color, text) ==
  [x |-> x, y |-> y, marker_color |-> marker_color, text |-> text]

AddTrace(f, t) == [f EXCEPT !.traces = Append(@, t)]

\* the script as written: the tables are the literals of the DATA section
Init ==
  /\ decl = DataSection
  /\ run = 1
  /\ pc = "page_config"
  /\ tables = Unbound
  /\ colors = <<>>
  /\ fig = NoFigures
  /\ page = <<>>
  /\ row = 0
  /\ error = ""

\* st.set_page_config(...)
SetPageConfig ==
  /\ pc = "page_config"
  /\ page' = Append(page, Element("page_config", "page_config", <<>>))
  /\ pc' = Succ(pc)
  /\ UNCHANGED <<decl, run, tables, colors, fig, row, error>>

\* a block of static text
Markdown ==
  /\ pc \in TextSteps
  /\ page' = Append(page, Element("markdown", pc, <<>>))
  /\ pc' = IF pc = "ratio_heading" /\ RowCount(tables.sophistication_data) = 0
           THEN "soph_insight" ELSE Succ(pc)
  /\ UNCHANGED <<decl, run, tables, colors, fig, row, error>>

\* the DATA section: every table name is bound to its DataFrame
DeclareTables ==
  /\ pc = "data"
  /\ tables' = decl
  /\ pc' = Succ(pc)
  /\ UNCHANGED <<decl, run, colors, fig, page, row, error>>

\* fig_yearly: two Scatter traces over the yearly table and the annotation
BuildYearly ==
  /\ pc = "fig_yearly"
  /\ LET df == tables.yearly_data
         area == Trace(df.Year, df.Observations, <<>>, <<>>)
         line == Trace(df.Year, df.Observations, "#dc2626", df.Observations)
         note == [x |-> "2024", y |-> 23,
                  text |-> <<"<", "b", ">", "+", "1", "8", "7", "%", "<", "/", "b", ">",
                             "<", "b", "r", ">", "v", "s", " ", "p", "r", "i", "o", "r",
                             " ", "y", "e", "a", "r">>]
     IN fig' = [fig EXCEPT !.fig_yearly =
                  [traces |-> <<area, line>>, annotations |-> <<note>>]]
  /\ pc' = Succ(pc)
  /\ UNCHANGED <<decl, run, tables, colors, page, row, error>>

\* st.plotly_chart(fig, ...): the figure as it is now goes to the page
PlotlyChart(step, name) ==
  /\ pc = step
  /\ page' = Append(page, Element("plotly_chart", name, fig[name]))
  /\ pc' = Succ(pc)
  /\ UNCHANGED <<decl, run, tables, colors, fig, row, error>>

PlotYearly == PlotlyChart("plot_yearly", "fig_yearly")
PlotViolations == PlotlyChart("plot_violations", "fig_violations")
PlotSoph == PlotlyChart("plot_soph", "fig_soph")
PlotKeywords == PlotlyChart("plot_keywords", "fig_keywords")
PlotGrowth == PlotlyChart("plot_growth", "fig_growth")

\* fig_violations = go.Figure(); colors = [...]
AssignViolationColors ==
  /\ pc = "violation_colors"
  /\ colors' = ViolationColors(tables.violation_data)
  /\ fig' = [fig EXCEPT !.fig_violations = EmptyFigure]
  /\ pc' = Succ(pc)
  /\ UNCHANGED <<decl, run, tables, page, row, error>>

\* fig_violations.add_trace(go.Bar(...)) and update_layout
TraceViolations ==
  /\ pc = "violation_trace"
  /\ LET df == tables.violation_data
     IN fig' = [fig EXCEPT !.fig_violations =
                  AddTrace(@, Trace(df.Count, df.ViolationType, colors, ViolationText(df)))]
  /\ pc' = Succ(pc)
  /\ UNCHANGED <<decl, run, tables, colors, page, row, error>>

\* fig_soph: the Basic and the Complex bars
TraceSoph ==
  /\ pc = "soph_traces"
  /\ LET df == tables.sophistication_data
         basic == Trace(df.Region, df.BasicFailures, "#f87171", SophText(df.BasicFailures))
         complex == Trace(df.Region, df.ComplexFailures, "#1e40af", SophText(df.ComplexFailures))
     IN fig' = [fig EXCEPT !.fig_soph = AddTrace(AddTrace(EmptyFigure, basic), complex)]
  /\ pc' = Succ(pc)
  /\ UNCHANGED <<decl, run, tables, colors, page, row, error>>

\* one iteration of  for _, row in sophistication_data.iterrows()
RatioLoop ==
  /\ pc = "ratio_loop"
  /\ LET df == tables.sophistication_data
         ratio == df.SophisticationRatio[row + 1]
         body == [region |-> df.Region[row + 1],
                  color |-> RatioColor(ratio),
                  ratio |-> Format2f(ratio),
                  interpretation |-> RatioInterpretation(ratio)]
     IN /\ page' = Append(page, Element("markdown", "ratio", body))
        /\ row' = row + 1
        /\ pc' = IF row + 1 < RowCount(df) THEN pc ELSE Succ(pc)
  /\ UNCHANGED <<decl, run, tables, colors, fig, error>>

\* the keyword chart started without its own  colors = [...]  line
AssignKeywordColors_Missing ==
  /\ pc = "keyword_colors"
  /\ fig' = [fig EXCEPT !.fig_keywords = EmptyFigure]
  /\ pc' = Succ(pc)
  /\ UNCHANGED <<decl, run, tables, colors, page, row, error>>

\* the keyword table put in reverse row order in place before colouring
AssignKeywordColors_Reorders ==
  /\ pc = "keyword_colors"
  /\ tables' = [tables EXCEPT !.keyword_data =
                  [c \in DOMAIN @ |-> [k \in 1..Len(@[c]) |-> @[c][Len(@[c]) + 1 - k]]]]
  /\ colors' = KeywordColors(tables'.keyword_data)
  /\ fig' = [fig EXCEPT !.fig_keywords = EmptyFigure]
  /\ pc' = Succ(pc)
  /\ UNCHANGED <<decl, run, page, row, error>>

\* fig_keywords = go.Figure(); colors = [...]
AssignKeywordColors ==
  /\ pc = "keyword_colors"
  /\ colors' = KeywordColors(tables.keyword_data)
  /\ fig' = [fig EXCEPT !.fig_keywords = EmptyFigure]
  /\ pc' = Succ(pc)
  /\ UNCHANGED <<decl, run, tables, page, row, error>>

\* fig_keywords.add_trace(go.Bar(...)) and update_layout
TraceKeywords ==
  /\ pc = "keyword_trace"
  /\ LET df == tables.keyword_data
     IN fig' = [fig EXCEPT !.fig_keywords =
                  AddTrace(@, Trace(df.Finding, df.Pct_of_Observations, colors, KeywordText(df)))]
  /\ pc' = Succ(pc)
  /\ UNCHANGED <<decl, run, tables, colors, page, row, error>>

\* fig_growth = go.Figure(); colors = [...]
AssignGrowthColors ==
  /\ pc = "growth_colors"
  /\ colors' = GrowthColors(tables.growth_data)
  /\ fig' = [fig EXCEPT !.fig_growth = EmptyFigure]
  /\ pc' = Succ(pc)
  /\ UNCHANGED <<decl, run, tables, page, row, error>>

\* fig_growth.add_trace(go.Bar(...)), add_hline and update_layout; the text
\* comprehension is evaluated before the trace exists
TraceGrowth ==
  /\ pc = "growth_trace"
  /\ LET df == tables.growth_data
     IN IF GrowthTextRaises(df)
        THEN /\ error' = "ValueError"
             /\ pc' = "error"
             /\ UNCHANGED fig
        ELSE /\ fig' = [fig EXCEPT !.fig_growth =
                          AddTrace(@, Trace(df.ViolationType, df.Growth_Pct, colors, GrowthText(df)))]
             /\ pc' = Succ(pc)
             /\ UNCHANGED error
  /\ UNCHANGED <<decl, run, tables, colors, page, row>>

\* the script is executed again from the top in a fresh namespace
Rerun ==
  /\ pc \in {"done", "error"}
  /\ run < MaxRuns
  /\ run' = run + 1
  /\ pc' = "page_config"
  /\ tables' = Unbound
  /\ colors' = <<>>
  /\ fig' = NoFigures
  /\ page' = <<>>
  /\ row' = 0
  /\ error' = ""
  /\ UNCHANGED decl

Next ==
  \/ SetPageConfig
  \/ Markdown
  \/ DeclareTables
  \/ BuildYearly
  \/ PlotYearly
  \/ AssignViolationColors
  \/ TraceViolations
  \/ PlotViolations
  \/ TraceSoph
  \/ PlotSoph
  \/ RatioLoop
  \/ AssignKeywordColors
  \/ TraceKeywords
  \/ PlotKeywords
  \/ AssignGrowthColors
  \/ TraceGrowth
  \/ PlotGrowth
  \/ Rerun

Spec == Init /\ [][Next]_vars

\* ------------------------------------------------- the tables as an input
\* The encodings are functions of the table contents.  To exercise them
\* beyond the values written today, the DATA section is taken with one
\* cell of a column that drives a conditional encoding rewritten.
GrowthCells == {Num(g) : g \in (0 - MaxPct)..MaxPct} \cup {NaN}

RatioCells == {Num(r) : r \in (100 - RatioSpread)..(100 + RatioSpread)} \cup {NaN}

EditedData ==
  {[DataSection EXCEPT !.growth_data.Growth_Pct[k] = c] :
      k \in 1..Len(growth_data.Growth_Pct), c \in GrowthCells}
  \cup
  {[DataSection EXCEPT !.sophistication_data.SophisticationRatio[k] = c] :
      k \in 1..Len(sophistication_data.SophisticationRatio), c \in RatioCells}

InitEdited ==
  /\ decl \in EditedData
  /\ run = 1
  /\ pc = "page_config"
  /\ tables = Unbound
  /\ colors = <<>>
  /\ fig = NoFigures
  /\ page = <<>>
  /\ row = 0
  /\ error = ""

SpecEdited == InitEdited /\ [][Next]_vars

\* the tables are bound once the DATA section has run
TablesBound == pc \notin {"page_config", "css", "data"}

\* ------------------------------------------------------- reading the page
IsRatioElement(e) == e.what = "ratio"

\* the blocks the ratio loop has emitted, in order: block k is for row k
RatioPanel == SelectSeq(page, IsRatioElement)

\* the single Bar trace of a figure has been added
HasTrace(name) == Len(fig[name].traces) > 0

\* the statements from the growth colours assignment to the end of the
\* pass, during which the name colors holds the growth chart's sequence
AfterGrowthColors ==
  {"growth_trace", "plot_growth", "growth_insight", "action_items", "footer", "done", "error"}

DigitChars == {Digit(d) : d \in 0..9}

DigitVal(c) == CHOOSE d \in 0..9 : Digit(d) = c

RECURSIVE ParseNat(_)
\* int(s) of a non-empty string of decimal digits
ParseNat(cs) ==
  IF Len(cs) = 1 THEN DigitVal(cs[1])
  ELSE 10 * ParseNat(SubSeq(cs, 1, Len(cs) - 1)) + DigitVal(cs[Len(cs)])

AllDigits(cs) == Len(cs) > 0 /\ \A k \in 1..Len(cs) : cs[k] \in DigitChars

\* ------------------------------------------------------------------ C1
\* C1: in the growth chart a Growth_Pct of 0 gets the colour a Growth_Pct
\* of +1 gets (the increase colour), and that colour differs from the
\* colour of every negative delta, for every row and on every pass.
C1_ZeroColouredAsIncrease ==
  pc \in AfterGrowthColors =>
    LET g == tables.growth_data.Growth_Pct
    IN \A k \in 1..Len(g) :
         (~g[k].nan /\ g[k].v = 0) =>
            /\ colors[k] = SignedColor(Num(1))
            /\ \A n \in 1..MaxPct : colors[k] # SignedColor(Num(0 - n))
            /\ \A j \in 1..Len(g) : (~g[j].nan /\ g[j].v < 0) => colors[k] # colors[j]

\* ------------------------------------------------------------------ C2
\* C2: every ratio r shown in the ratio panel is compared with 1.0: r > 1.0
\* gives 'More complex than basic' in #059669, r < 1.0 gives 'More basic
\* than complex' in #dc2626, and r = 1.0 gives the same as r < 1.0; label
\* and colour always belong to the same outcome, and every row visited so
\* far has exactly one block.
C2_RatioInterpretation ==
  TablesBound =>
    LET r == tables.sophistication_data.SophisticationRatio
    IN /\ Len(RatioPanel) = row
       /\ (pc \in AfterGrowthColors => row = Len(r))
       /\ \A k \in 1..Len(RatioPanel) :
            LET e == RatioPanel[k].data
            IN ~r[k].nan =>
                 /\ r[k].v > 100 =>
                      e.color = "#059669" /\ e.interpretation = "More complex than basic"
                 /\ r[k].v < 100 =>
                      e.color = "#dc2626" /\ e.interpretation = "More basic than complex"
                 /\ r[k].v = 100 =>
                      e.color = "#dc2626" /\ e.interpretation = "More basic than complex"

\* a pass that has shown a ratio of exactly 1.00 next to one above and one
\* below it
C2_Witness ==
  /\ pc = "soph_insight"
  /\ LET r == tables.sophistication_data.SophisticationRatio
     IN /\ \E k \in 1..Len(RatioPanel) : r[k] = Num(100) /\ RatioPanel[k].data.color = "#dc2626"
        /\ \E k \in 1..Len(RatioPanel) : r[k] = Num(108) /\ RatioPanel[k].data.color = "#059669"
        /\ \E k \in 1..Len(RatioPanel) : r[k] = Num(67) /\ RatioPanel[k].data.color = "#dc2626"

\* ------------------------------------------------------------------ C3
\* C3: the violation chart has one colour per row, #dc2626 exactly at row
\* index 0 and #475569 elsewhere; the keyword chart has one colour per row,
\* #dc2626 exactly where Finding is 'Delete capability', 'Spreadsheet use'
\* or 'Administrator access' and #64748b elsewhere; the bars are the table
\* rows in table order, 9 and 7 of them.
C3_CategoryColours ==
  /\ HasTrace("fig_violations") =>
       LET t == fig.fig_violations.traces[1]
           df == tables.violation_data
       IN /\ Len(t.marker_color) = 9
          /\ Len(t.marker_color) = Len(df.Count)
          /\ t.y = df.ViolationType /\ t.x = df.Count
          /\ \A k \in 1..Len(t.marker_color) :
               /\ (t.marker_color[k] = "#dc2626") <=> (k - 1 = 0)
               /\ (t.marker_color[k] = "#475569") <=> (k - 1 # 0)
  /\ HasTrace("fig_keywords") =>
       LET t == fig.fig_keywords.traces[1]
           df == tables.keyword_data
           emphasis == {"Delete capability", "Spreadsheet use", "Administrator access"}
       IN /\ Len(t.marker_color) = 7
          /\ Len(t.marker_color) = Len(df.Finding)
          /\ t.x = df.Finding /\ t.y = df.Pct_of_Observations
          /\ \A k \in 1..Len(t.marker_color) :
               /\ (t.marker_color[k] = "#dc2626") <=> (df.Finding[k] \in emphasis)
               /\ (t.marker_color[k] = "#64748b") <=> (df.Finding[k] \notin emphasis)

\* both charts are on the page with their colours
C3_Witness ==
  /\ \E k \in 1..Len(page) :
       /\ page[k].what = "fig_violations"
       /\ page[k].data.traces[1].marker_color[1] = "#dc2626"
       /\ page[k].data.traces[1].marker_color[9] = "#475569"
  /\ \E k \in 1..Len(page) :
       /\ page[k].what = "fig_keywords"
       /\ page[k].data.traces[1].marker_color[5] = "#dc2626"
       /\ page[k].data.traces[1].marker_color[7] = "#64748b"

\* ------------------------------------------------------------------ C4
\* C4: the growth chart's label of an integer Growth_Pct g is, inside
\* <b>...</b>, a sign that is always written ('+' when g >= 0, '-' when
\* g < 0), the decimal digits of |g| and '%': 33 gives +33%, -57 gives
\* -57%, 0 gives +0%.
C4_SignedPercentLabel ==
  HasTrace("fig_growth") =>
    LET t == fig.fig_growth.traces[1]
        g == tables.growth_data.Growth_Pct
    IN /\ Len(t.text) = Len(g)
       /\ \A k \in 1..Len(g) :
            LET s == t.text[k]
                n == Len(s)
            IN /\ n >= 10
               /\ SubSeq(s, 1, 3) = <<"<", "b", ">">>
               /\ SubSeq(s, n - 4, n) = <<"%", "<", "/", "b", ">">>
               /\ s[4] = (IF g[k].v >= 0 THEN "+" ELSE "-")
               /\ AllDigits(SubSeq(s, 5, n - 5))
               /\ ParseNat(SubSeq(s, 5, n - 5)) = Abs(g[k].v)
               /\ (g[k].v > 0 => s[5] # "0")
               /\ (g[k].v = 33 => s = <<"<", "b", ">", "+", "3", "3", "%", "<", "/", "b", ">">>)
               /\ (g[k].v = -57 => s = <<"<", "b", ">", "-", "5", "7", "%", "<", "/", "b", ">">>)
               /\ (g[k].v = 0 => s = <<"<", "b", ">", "+", "0", "%", "<", "/", "b", ">">>)

\* the growth chart is on the page with a positive, a negative and a zero
\* label, one of them for a value the script does not contain today
C4_Witness ==
  /\ decl # DataSection
  /\ \E p \in 1..Len(page) :
       /\ page[p].what = "fig_growth"
       /\ LET txt == page[p].data.traces[1].text
              g == tables.growth_data.Growth_Pct
          IN /\ \E k \in 1..Len(g) : g[k].v = 0 /\ txt[k][4] = "+"
             /\ \E k \in 1..Len(g) : g[k].v < 0 /\ txt[k][4] = "-"
             /\ \E k \in 1..Len(g) : g[k].v = 0 - 7 /\ Len(txt[k]) = 10
             /\ \E k \in 1..Len(g) : g[k].v = 33 /\ Len(txt[k]) = 11

\* ------------------------------------------------------------------ C5
\* rankRows: the row indices in descending order of a measure, rows of
\* equal measure in table order (insertion of row n behind every row
\* ranked so far whose measure is at least as large)
RECURSIVE RankUpTo(_, _)
RankUpTo(col, n) ==
  IF n = 0 THEN <<>>
  ELSE LET r == RankUpTo(col, n - 1)
           ahead == Cardinality({k \in 1..Len(r) : col[r[k]] >= col[n]})
       IN SubSeq(r, 1, ahead) \o <<n>> \o SubSeq(r, ahead + 1, Len(r))

RankRows(col) == [k \in 1..Len(col) |-> RankUpTo(col, Len(col))[k] - 1]

\* C5: ranking the violation table by Count, descending and stable, puts
\* index 0 (Audit Trail Failures, the unique maximum 49) first and keeps
\* the rows with Count 24 in the order 2, 3, 4; ranking the ranked rows
\* again changes nothing; the one emphasised bar is the first-ranked row
\* and the bars are drawn in rank order.
C5_RankOrder ==
  HasTrace("fig_violations") =>
    LET df == tables.violation_data
        cnt == df.Count
        rank == RankRows(cnt)
        t == fig.fig_violations.traces[1]
        Is24(i) == cnt[i + 1] = 24
        ranked == [k \in 1..Len(rank) |-> cnt[rank[k] + 1]]
    IN /\ rank[1] = 0
       /\ df.ViolationType[rank[1] + 1] = "Audit Trail Failures"
       /\ cnt[rank[1] + 1] = 49
       /\ \A k \in 2..Len(cnt) : cnt[k] < 49
       /\ SelectSeq(rank, Is24) = <<2, 3, 4>>
       /\ RankRows(ranked) = [k \in 1..Len(cnt) |-> k - 1]
       /\ {k - 1 : k \in {j \in 1..Len(t.marker_color) : t.marker_color[j] = "#dc2626"}} = {rank[1]}
       /\ t.x = ranked
       /\ t.y = [k \in 1..Len(rank) |-> df.ViolationType[rank[k] + 1]]

\* the violation chart is on the page, its first bar emphasised and its
\* third to fifth bars the three rows of Count 24
C5_Witness ==
  \E p \in 1..Len(page) :
    /\ page[p].what = "fig_violations"
    /\ LET t == page[p].data.traces[1]
       IN /\ t.marker_color[1] = "#dc2626"
          /\ t.x[1] = 49
          /\ SubSeq(t.x, 3, 5) = <<24, 24, 24>>
          /\ SubSeq(t.y, 3, 5) =
               <<"Chromatography Data Systems", "Electronic Records", "Password & Login Issues">>

\* ------------------------------------------------------------------ C6
\* C6: when a measure the render consumes is NaN (a Sophistication Ratio, a
\* Growth_Pct), the pass ends in an error: it never reaches its end, and no
\* block or chart is emitted for the malformed row.
C6_MalformedNeverSwallowed ==
  LET ratio == decl.sophistication_data.SophisticationRatio
      growth == decl.growth_data.Growth_Pct
      malformed == IsFloatColumn(growth) \/ (\E k \in 1..Len(ratio) : ratio[k].nan)
  IN malformed =>
       /\ pc # "done"
       /\ \A k \in 1..Len(RatioPanel) : ~ratio[k].nan
       /\ \A p \in 1..Len(page) : page[p].what = "fig_growth" => ~IsFloatColumn(growth)

\* ------------------------------------------------------------------ C7
\* C7: for every row of the violation table, Percentage is within 0.05 of
\* Count / TOTAL_OBSERVATIONS * 100 (in hundredths p:
\* |TOTAL_OBSERVATIONS * p - 10000 * Count| <= 5 * TOTAL_OBSERVATIONS).
C7_PercentageOfTotal ==
  TablesBound =>
    LET df == tables.violation_data
    IN /\ TOTAL_OBSERVATIONS = 141
       /\ Len(df.Percentage) = Len(df.Count)
       /\ \A k \in 1..Len(df.Count) :
            Abs(TOTAL_OBSERVATIONS * df.Percentage[k] - 10000 * df.Count[k])
              <= 5 * TOTAL_OBSERVATIONS

\* the violation chart has been drawn from the nine rows
C7_Witness ==
  /\ pc = "plot_violations"
  /\ Len(tables.violation_data.Count) = 9
  /\ fig.fig_violations.traces[1].x[1] = 49
  /\ tables.violation_data.Percentage[1] = 3480

\* ------------------------------------------------------------------ C8
\* C8: after any prefix of the rendering steps every table has the rows,
\* the order and the values of its declaration.
C8_TablesReadOnly == TablesBound => (tables = decl /\ tables = DataSection)

\* the pass is complete: every chart and every ratio block is on the page
C8_Witness ==
  /\ pc = "done"
  /\ Len(RatioPanel) = 3
  /\ \A n \in DOMAIN NoFigures : \E p \in 1..Len(page) : page[p].what = n
  /\ tables.keyword_data = keyword_data

\* ------------------------------------------------------------------ C9
\* position of the first occurrence of character c in cs, 0 when absent
IndexOf(cs, c) ==
  IF \E k \in 1..Len(cs) : cs[k] = c
  THEN CHOOSE k \in 1..Len(cs) : cs[k] = c /\ \A j \in 1..(k - 1) : cs[j] # c
  ELSE 0

\* float(s) of a decimal without sign or exponent, in hundredths
ParseFloat(cs) ==
  LET dot == IndexOf(cs, ".")
  IN IF dot = 0 THEN 100 * ParseNat(cs)
     ELSE 100 * ParseNat(SubSeq(cs, 1, dot - 1))
          + (IF Len(cs) - dot = 1 THEN 10 * DigitVal(cs[dot + 1])
             ELSE 10 * DigitVal(cs[dot + 1]) + DigitVal(cs[dot + 2]))

\* label l shows value h with exactly one decimal digit and a trailing %,
\* and reads back and formats again to itself
RoundTrips(l, h) ==
  LET n == Len(l)
      num == SubSeq(l, 1, n - 1)
  IN /\ n >= 4
     /\ l[n] = "%"
     /\ IndexOf(num, ".") = n - 2
     /\ AllDigits(SubSeq(num, 1, n - 3))
     /\ num[n - 1] \in DigitChars
     /\ ParseFloat(num) = h
     /\ FormatFloat(ParseFloat(num)) \o <<"%">> = l

\* C9: every percentage label drawn from the tables (violation Percentage,
\* Basic Failures, Complex Failures, Pct_of_Observations) is the value with
\* exactly one decimal digit and '%', and formatting, parsing and
\* formatting again gives the same label (34.8 gives 34.8%, 17.0 gives
\* 17.0%).
C9_PercentageRoundTrip ==
  /\ HasTrace("fig_violations") =>
       LET t == fig.fig_violations.traces[1].text
           df == tables.violation_data
       IN /\ Len(t) = Len(df.Percentage)
          /\ \A k \in 1..Len(t) :
               LET open == IndexOf(t[k], "(")
               IN /\ open > 0 /\ t[k][Len(t[k])] = ")"
                  /\ RoundTrips(SubSeq(t[k], open + 1, Len(t[k]) - 1), df.Percentage[k])
          /\ SubSeq(t[1], 12, 16) = <<"3", "4", ".", "8", "%">>
          /\ SubSeq(t[3], 12, 16) = <<"1", "7", ".", "0", "%">>
  /\ HasTrace("fig_soph") =>
       LET b == fig.fig_soph.traces[1].text
           c == fig.fig_soph.traces[2].text
           df == tables.sophistication_data
       IN /\ Len(b) = Len(df.BasicFailures) /\ Len(c) = Len(df.ComplexFailures)
          /\ \A k \in 1..Len(b) : RoundTrips(b[k], df.BasicFailures[k])
          /\ \A k \in 1..Len(c) : RoundTrips(c[k], df.ComplexFailures[k])
  /\ HasTrace("fig_keywords") =>
       LET t == fig.fig_keywords.traces[1].text
           df == tables.keyword_data
       IN /\ Len(t) = Len(df.Pct_of_Observations)
          /\ \A k \in 1..Len(t) :
               /\ SubSeq(t[k], 1, 3) = <<"<", "b", ">">>
               /\ RoundTrips(SubSeq(t[k], 4, Len(t[k]) - 4), df.Pct_of_Observations[k])

\* the three charts that carry percentage labels are on the page
C9_Witness ==
  /\ \E p \in 1..Len(page) :
       /\ page[p].what = "fig_violations"
       /\ page[p].data.traces[1].text[3] =
            <<"<", "b", ">", "2", "4", "<", "/", "b", ">", " ", "(", "1", "7", ".", "0", "%", ")">>
  /\ \E p \in 1..Len(page) :
       /\ page[p].what = "fig_soph"
       /\ page[p].data.traces[2].text[1] = <<"3", "4", ".", "3", "%">>
  /\ \E p \in 1..Len(page) :
       /\ page[p].what = "fig_keywords"
       /\ page[p].data.traces[1].text[2] = <<"<", "b", ">", "9", ".", "9", "%", "<", "/", "b", ">">>

\* ----------------------------------------------------------------- C10
\* C10: for every row of the growth table Y2022 is not zero and Growth_Pct
\* is (Y2024 - Y2022) / Y2022 * 100 rounded to the nearest integer, sign
\* kept (9 to 12 gives 33, 7 to 3 gives -57, equal counts give 0).
C10_GrowthPct ==
  TablesBound =>
    LET df == tables.growth_data
    IN /\ Len(df.Y2022) = Len(df.Growth_Pct) /\ Len(df.Y2024) = Len(df.Growth_Pct)
       /\ \A k \in 1..Len(df.Growth_Pct) :
            LET a == df.Y2022[k]
                b == df.Y2024[k]
                g == df.Growth_Pct[k]
            IN /\ a # 0
               /\ ~g.nan
               /\ 2 * Abs(g.v * a - 100 * (b - a)) <= Abs(a)
               /\ (b > a => g.v > 0) /\ (b < a => g.v < 0) /\ (b = a => g.v = 0)

\* the growth chart has been drawn from a table with a rise, a fall and an
\* unchanged row
C10_Witness ==
  /\ pc = "plot_growth"
  /\ LET df == tables.growth_data
     IN /\ \E k \in 1..Len(df.Y2022) : df.Y2022[k] = 9 /\ df.Y2024[k] = 12 /\ df.Growth_Pct[k].v = 33
        /\ \E k \in 1..Len(df.Y2022) : df.Y2022[k] = 7 /\ df.Y2024[k] = 3 /\ df.Growth_Pct[k].v = 0 - 57
        /\ \E k \in 1..Len(df.Y2022) : df.Y2022[k] = df.Y2024[k] /\ df.Growth_Pct[k].v = 0
  /\ fig.fig_growth.traces[1].y = tables.growth_data.Growth_Pct

\* ----------------------------------------------------------------- C11
\* C11: for every row of the sophistication table the stored ratio is
\* Complex Failures / Basic Failures rounded to two decimals, so it is
\* above 1 exactly when Complex Failures exceeds Basic Failures: the
\* interpretation shown never contradicts the two bars of the region.
C11_RatioOfBars ==
  TablesBound =>
    LET df == tables.sophistication_data
    IN /\ Len(df.BasicFailures) = Len(df.SophisticationRatio)
       /\ Len(df.ComplexFailures) = Len(df.SophisticationRatio)
       /\ \A k \in 1..Len(df.SophisticationRatio) :
            LET r == df.SophisticationRatio[k]
                basic == df.BasicFailures[k]
                complex == df.ComplexFailures[k]
            IN /\ ~r.nan
               /\ basic > 0
               /\ 2 * Abs(r.v * basic - 100 * complex) <= basic
               /\ (r.v > 100) <=> (complex > basic)
       /\ HasTrace("fig_soph") =>
            /\ fig.fig_soph.traces[1].y = df.BasicFailures
            /\ fig.fig_soph.traces[2].y = df.ComplexFailures
       /\ \A k \in 1..Len(RatioPanel) :
            (RatioPanel[k].data.interpretation = "More complex than basic")
              <=> (df.ComplexFailures[k] > df.BasicFailures[k])

\* the two bars and the ratio blocks of all three regions are on the page,
\* India's block reading 'More complex than basic' over bars 21.1 and 22.8
C11_Witness ==
  /\ pc = "soph_insight"
  /\ \E p \in 1..Len(page) :
       /\ page[p].what = "fig_soph"
       /\ page[p].data.traces[1].y[2] = 2110
       /\ page[p].data.traces[2].y[2] = 2280
  /\ Len(RatioPanel) = 3
  /\ RatioPanel[2].data.region = "India"
  /\ RatioPanel[2].data.interpretation = "More complex than basic"
  /\ RatioPanel[1].data.interpretation = "More basic than complex"

\* ----------------------------------------------------------------- C12
\* C12: a pass that fails because of a malformed table has emitted no page
\* element before the failure: the page is complete or empty.
C12_NoPartialRender == pc = "error" => page = <<>>

\* ----------------------------------------------------------------- C13
\* C13: the yearly chart's one annotation is anchored at a row of the
\* yearly table (x = '2024', y = 23); that row holds the unique maximum of
\* Observations, so it is first in descending rank; and the annotated
\* +187% is the change from the preceding row to it, (23 - 8) / 8 * 100
\* truncated to an integer.
C13_AnnotationAgrees ==
  Len(fig.fig_yearly.annotations) > 0 =>
    LET df == tables.yearly_data
        note == fig.fig_yearly.annotations[1]
    IN /\ Len(fig.fig_yearly.annotations) = 1
       /\ note.x = "2024" /\ note.y = 23
       /\ \E k \in 2..Len(df.Year) :
            /\ df.Year[k] = note.x
            /\ df.Observations[k] = note.y
            /\ \A j \in 1..Len(df.Year) : j # k => df.Observations[j] < df.Observations[k]
            /\ df.Observations[k - 1] > 0
            /\ SubSeq(note.text, 1, 4) = <<"<", "b", ">", "+">>
            /\ LET pct == IndexOf(note.text, "%")
               IN /\ pct > 5
                  /\ AllDigits(SubSeq(note.text, 5, pct - 1))
                  /\ ParseNat(SubSeq(note.text, 5, pct - 1)) = 187
                  /\ ParseNat(SubSeq(note.text, 5, pct - 1)) =
                       ((df.Observations[k] - df.Observations[k - 1]) * 100)
                         \div df.Observations[k - 1]
       /\ fig.fig_yearly.traces[2].x = df.Year
       /\ fig.fig_yearly.traces[2].y = df.Observations

\* the yearly chart is on the page with its annotation at the 2024 point
C13_Witness ==
  \E p \in 1..Len(page) :
    /\ page[p].what = "fig_yearly"
    /\ page[p].data.annotations[1].x = "2024"
    /\ page[p].data.annotations[1].y = 23
    /\ page[p].data.traces[2].x[5] = "2024"
    /\ page[p].data.traces[2].y[5] = 23
    /\ page[p].data.traces[2].y[4] = 8

\* ----------------------------------------------------------------- C14
\* the stretches of the pass between two assignments of colors
BeforeColors ==
  {"page_config", "css", "data", "sidebar", "header", "hook", "spike", "fig_yearly",
   "plot_yearly", "spike_insight", "paradox", "violation_colors"}

ViolationStretch ==
  {"violation_trace", "plot_violations", "found", "soph_intro", "soph_traces", "plot_soph",
   "ratio_heading", "ratio_loop", "soph_insight", "delete_intro", "keyword_colors"}

KeywordStretch ==
  {"keyword_trace", "plot_keywords", "keyword_columns", "improving", "growth_colors"}

\* the colour sequence of the chart called name, as the page shows it
Rendered(name) ==
  LET at == CHOOSE p \in 1..Len(page) : page[p].what = name
  IN page[at].data.traces[1].marker_color

IsRendered(name) == \E p \in 1..Len(page) : page[p].what = name

\* in every state: colors holds the sequence of the chart being built, and
\* each chart on the page shows the sequence of its own table
C14_OwnColours ==
  /\ pc \in BeforeColors => colors = <<>>
  /\ pc \in ViolationStretch =>
       /\ Len(colors) = 9
       /\ colors = <<"#dc2626", "#475569", "#475569", "#475569", "#475569",
                     "#475569", "#475569", "#475569", "#475569">>
  /\ pc \in KeywordStretch =>
       /\ Len(colors) = 7
       /\ colors = <<"#dc2626", "#dc2626", "#64748b", "#64748b", "#dc2626", "#64748b", "#64748b">>
  /\ pc \in AfterGrowthColors =>
       /\ Len(colors) = 4
       /\ colors = <<"#dc2626", "#059669", "#059669", "#059669">>
  /\ IsRendered("fig_violations") =>
       /\ Len(Rendered("fig_violations")) = Len(tables.violation_data.Count)
       /\ Rendered("fig_violations") =
            <<"#dc2626", "#475569", "#475569", "#475569", "#475569",
              "#475569", "#475569", "#475569", "#475569">>
  /\ IsRendered("fig_keywords") =>
       /\ Len(Rendered("fig_keywords")) = Len(tables.keyword_data.Finding)
       /\ Rendered("fig_keywords") =
            <<"#dc2626", "#dc2626", "#64748b", "#64748b", "#dc2626", "#64748b", "#64748b">>
  /\ IsRendered("fig_growth") =>
       /\ Len(Rendered("fig_growth")) = Len(tables.growth_data.Growth_Pct)
       /\ Rendered("fig_growth") = <<"#dc2626", "#059669", "#059669", "#059669">>

\* in every step of one pass: colors changes only at its three assignments,
\* taken in the order violation, keyword, growth, and what is on the page
\* stays as it was rendered
C14_Step ==
  run' = run =>
    /\ colors' # colors =>
         \/ pc = "violation_colors" /\ colors = <<>> /\ Len(colors') = 9
         \/ pc = "keyword_colors" /\ Len(colors) = 9 /\ Len(colors') = 7
         \/ pc = "growth_colors" /\ Len(colors) = 7 /\ Len(colors') = 4
    /\ pc \in {"violation_colors", "keyword_colors", "growth_colors"} => colors' # colors
    /\ Len(page') >= Len(page)
    /\ \A p \in 1..Len(page) : page'[p] = page[p]

\* C14: colors is assigned three times in one pass (violation, keyword,
\* growth chart, in that order); every chart is built and rendered with the
\* sequence computed from its own table just before it, a later assignment
\* never changes a chart already rendered, and the sequences have the
\* lengths of their tables (9, 7, 4).
C14_ColoursPerChart == [](C14_OwnColours) /\ [][C14_Step]_vars

\* the pass is over: three charts with colours are on the page, each with
\* its own sequence, after colors has been assigned for the third time
C14_Witness ==
  /\ pc = "done"
  /\ Len(colors) = 4
  /\ IsRendered("fig_violations") /\ Len(Rendered("fig_violations")) = 9
  /\ IsRendered("fig_keywords") /\ Len(Rendered("fig_keywords")) = 7
  /\ IsRendered("fig_growth") /\ Rendered("fig_growth") = colors

====
